---------------------------- MODULE Spec2Model ----------------------------
(***************************************************************************)
(* ExoRad2: the task pipeline of exorad/tasks/instrumentHandler.py         *)
(* (BuildInstrument, BuildChannels, LoadPayload, PreparePayload) and the   *)
(* target lists of exorad/models/target.py.                                *)
(*                                                                         *)
(* Python strings the code takes apart (file names, type tags, unit        *)
(* annotations, target names) are sequences of one-character strings.      *)
(***************************************************************************)
EXTENDS Integers, Sequences, FiniteSets, TLC

VARIABLES pc, stack, frame, store, log, outputs, exc,    \* the task pipeline
          tpc, catalog, targets, warnings, texc, op     \* a target list

pvars == <<pc, stack, frame, store, log, outputs, exc>>
tvars == <<tpc, catalog, targets, warnings, texc, op>>
vars == <<pvars, tvars>>

(***************************************************************************)
(* Bounds of the model.                                                    *)
(***************************************************************************)
MaxChannels == 2
MaxRows == 2

(***************************************************************************)
(* Character helpers.                                                      *)
(***************************************************************************)
\* str.lower() on one character
LowerChar(c) ==
    CASE c = "A" -> "a" [] c = "B" -> "b" [] c = "C" -> "c" [] c = "D" -> "d"
      [] c = "E" -> "e" [] c = "G" -> "g" [] c = "H" -> "h" [] c = "J" -> "j"
      [] c = "L" -> "l" [] c = "M" -> "m" [] c = "O" -> "o" [] c = "P" -> "p"
      [] c = "R" -> "r" [] c = "S" -> "s" [] c = "T" -> "t" [] c = "X" -> "x"
      [] OTHER -> c

\* str.lower()
Lower(s) == [i \in DOMAIN s |-> LowerChar(s[i])]

(***************************************************************************)
(* The registry of instrument classes.                                     *)
(***************************************************************************)
photometer == <<"p","h","o","t","o","m","e","t","e","r">>
spectrometer == <<"s","p","e","c","t","r","o","m","e","t","e","r">>

\* instruments = {'photometer': Photometer, 'spectrometer': Spectrometer}
instruments == [t \in {photometer, spectrometer} |->
                   IF t = photometer THEN "Photometer" ELSE "Spectrometer"]

(***************************************************************************)
(* Inputs.                                                                 *)
(***************************************************************************)
\* type tags given to BuildInstrument or found in channelClass.value
TypeTags == {photometer, spectrometer,
             <<"P","h","o","t","o","m","e","t","e","r">>,
             <<"S","P","E","C","T","R","O","M","E","T","E","R">>,
             <<"b","o","l","o","m","e","t","e","r">>}

ChannelNames == {"Phot", "Spec", "Spec1"}

\* the 'common' section of a payload
Commons == {[wl_min |-> 1, wl_max |-> 8], [wl_min |-> 2, wl_max |-> 5]}

RECURSIVE SeqsUpTo(_, _)
\* the sequences over S of length at most n
SeqsUpTo(S, n) ==
    IF n = 0 THEN {<<>>}
    ELSE LET shorter == SeqsUpTo(S, n - 1)
         IN  shorter \cup {Append(q, x) : q \in shorter, x \in S}

\* the channel declarations of a payload: an ordered mapping, so names are keys
ChannelDecls ==
    {q \in SeqsUpTo([name : ChannelNames, channelClass : TypeTags], MaxChannels) :
        \A i, j \in DOMAIN q : q[i].name = q[j].name => i = j}

Payloads == [channel : ChannelDecls, common : Commons]

\* payload_file values: p.xml, run.h5, h5, p.csv, .xml, a.b.xml, p.XML
FileNames == {<<"p",".","x","m","l">>,
              <<"r","u","n",".","h","5">>,
              <<"h","5">>,
              <<"p",".","c","s","v">>,
              <<".","x","m","l">>,
              <<"a",".","b",".","x","m","l">>,
              <<"p",".","X","M","L">>}

NoPayload == [channel |-> <<>>, common |-> [wl_min |-> 0, wl_max |-> 0]]

(***************************************************************************)
(* os.path.splitext: the extension starts at the last dot, unless only     *)
(* dots come before it.                                                    *)
(***************************************************************************)
LastDot(s) ==
    IF \E i \in DOMAIN s : s[i] = "."
    THEN CHOOSE i \in DOMAIN s : s[i] = "." /\ \A j \in DOMAIN s : s[j] = "." => j <= i
    ELSE 0

splitext(s) ==
    LET d == LastDot(s)
    IN  IF d = 0 \/ \A j \in 1..(d - 1) : s[j] = "."
        THEN <<s, <<>>>>
        ELSE <<SubSeq(s, 1, d - 1), SubSeq(s, d, Len(s))>>


dotxml == <<".","x","m","l">>
h5 == <<"h","5">>

(***************************************************************************)
(* Bookkeeping of the model: the events of a run, in order.                *)
(***************************************************************************)
Ev(e, a) == [ev |-> e, arg |-> a]

\* a sequence with several events appended
Logged(l, es) == l \o es

NoDescription == [name |-> "", channelClass |-> <<>>]

NoOutputs == [PreparePayload |-> <<>>, BuildChannels |-> <<>>,
              BuildInstrument |-> <<>>, LoadPayload |-> <<>>]

InitFrame == [top |-> "none",
              payload_file |-> <<>>, output |-> "None",
              payload |-> NoPayload, write |-> FALSE, i |-> 0, channels |-> <<>>,
              type |-> <<>>, name |-> "", description |-> NoDescription,
              biwrite |-> FALSE, input |-> "none"]

\* the output store: its handle, what was written through it, what is on disk
InitStore == [state |-> "absent", entries |-> <<>>, disk |-> <<>>]

PInit ==
    /\ pc = "idle"
    /\ stack = <<>>
    /\ frame = InitFrame
    /\ store = InitStore
    /\ log = <<>>
    /\ outputs = NoOutputs
    /\ exc = "none"

(***************************************************************************)
(* The output store (exorad.output.hdf5).                                  *)
(***************************************************************************)
\* HDF5Output.__enter__: the store is opened
StoreEnter(st) == [st EXCEPT !.state = "open", !.entries = <<>>]

\* HDF5Output.__exit__: the store is flushed and closed
StoreExit(st) == [st EXCEPT !.state = "closed", !.disk = st.entries]

\* create_group('payload').store_dictionary(payload, group_name='payload description')
StoreDescription(st, p) ==
    [st EXCEPT !.entries = Append(@, [group |-> "payload description",
                                      key |-> "payload",
                                      payload |-> p,
                                      inst |-> <<>>])]

\* Instrument.write(ch): the instrument is stored under its name
StoreInstrument(st, group, inst) ==
    [st EXCEPT !.entries = Append(@, [group |-> group,
                                      key |-> inst.name,
                                      payload |-> NoPayload,
                                      inst |-> <<inst>>])]

(***************************************************************************)
(* Exceptions: an exception leaves every frame down to the innermost       *)
(* `with` block, whose exit runs, or leaves them all.                      *)
(***************************************************************************)
\* an exception that leaves every frame, as if no `with` block were there
UnwindNoFinally(stk) == <<>>

Unwind(stk) ==
    IF \E k \in DOMAIN stk : stk[k] = "with"
    THEN SubSeq(stk, 1, CHOOSE k \in DOMAIN stk :
                            stk[k] = "with" /\ \A j \in DOMAIN stk : stk[j] = "with" => j <= k)
    ELSE <<>>

\* where control is after an exception raised under stk
Raised(stk) == [stack |-> Unwind(stk),
                pc |-> IF Unwind(stk) = <<>> THEN "done" ELSE "PP_exit"]

Pop(stk) == SubSeq(stk, 1, Len(stk) - 1)

Top(stk) == IF stk = <<>> THEN "none" ELSE stk[Len(stk)]

(***************************************************************************)
(* BuildInstrument                                                         *)
(***************************************************************************)
\* instruments[type] after lower-casing: a lookup that ignores case
LookupClassLower(t) ==
    IF Lower(t) \in DOMAIN instruments THEN <<instruments[Lower(t)]>> ELSE <<>>

\* try: instruments[type]  except KeyError: <<>> stands for the KeyError
LookupClass(t) ==
    IF t \in DOMAIN instruments THEN <<instruments[t]>> ELSE <<>>

\* instrumentClass(name, description, payload) followed by build()
BuiltInstrument(cls, name, description) ==
    [class |-> cls, name |-> name, description |-> description, built |-> TRUE]

\* a direct invocation: buildInstrument(type=t, name=.., description=d, write=w, ..)
CallBuildInstrument(t, d, w) ==
    /\ pc = "idle"
    /\ pc' = "BI_execute"
    /\ stack' = <<"BuildInstrument">>
    /\ frame' = [frame EXCEPT !.top = "BuildInstrument", !.type = t, !.name = d.name,
                              !.description = d, !.biwrite = w]
    /\ store' = IF w THEN StoreEnter(store) ELSE store
    /\ log' = Append(log, Ev("call", "BuildInstrument"))
    /\ UNCHANGED <<outputs, exc>>
    /\ UNCHANGED tvars

BuildInstrument_execute ==
    /\ pc = "BI_execute"
    /\ LET found == LookupClass(frame.type)
       IN  IF found = <<>>
           THEN /\ log' = Append(log, Ev("error", "invalid instrument class"))
                /\ exc' = "ValueError"
                /\ pc' = Raised(stack).pc
                /\ stack' = Raised(stack).stack
                /\ UNCHANGED <<frame, store, outputs>>
           ELSE LET instrument == BuiltInstrument(found[1], frame.name, frame.description)
                IN  /\ store' = IF frame.biwrite
                                THEN StoreInstrument(store, "root", instrument)
                                ELSE store
                    /\ log' = Logged(log,
                                 <<Ev("construct", frame.name), Ev("build", frame.name)>>
                                 \o (IF frame.biwrite THEN <<Ev("write", frame.name)>> ELSE <<>>)
                                 \o <<Ev("set_output", "BuildInstrument"),
                                      Ev("return", "BuildInstrument")>>)
                    /\ outputs' = [outputs EXCEPT !.BuildInstrument = <<instrument>>]
                    /\ stack' = Pop(stack)
                    /\ pc' = IF Top(Pop(stack)) = "BuildChannels" THEN "BC_built" ELSE "done"
                    /\ UNCHANGED <<frame, exc>>
    /\ UNCHANGED tvars

(***************************************************************************)
(* BuildChannels                                                           *)
(***************************************************************************)
\* the channelClass value as written, not lower-cased
ChannelTypeRaw(cls) == cls

\* payload['channel'][det]['channelClass']['value'].lower()
ChannelType(cls) == Lower(cls)

\* BuildChannels' own write flag handed on to BuildInstrument
NestedWritePassed(write) == write

\* line 117: buildInstrument(..., write=False, output=None)
NestedWrite(write) == FALSE

\* the first channel's description whatever the key
ChannelAtFirst(payload, i) == payload.channel[1]

\* payload['channel'][det] for the i-th key det of payload['channel']
ChannelAt(payload, i) == payload.channel[i]

\* the built channel is never written
ChannelStoreNever(st, write, inst) == st

\* lines 119-120: if write: channels[det].write(ch)
ChannelStore(st, write, inst) ==
    IF write THEN StoreInstrument(st, "channels", inst) ELSE st

\* a direct invocation: buildChannels(payload=p, write=w, output=..)
CallBuildChannels(p, w) ==
    /\ pc = "idle"
    /\ pc' = "BC_execute"
    /\ stack' = <<"BuildChannels">>
    /\ frame' = [frame EXCEPT !.top = "BuildChannels", !.payload = p, !.write = w]
    /\ store' = IF w THEN StoreEnter(store) ELSE store
    /\ log' = Append(log, Ev("call", "BuildChannels"))
    /\ UNCHANGED <<outputs, exc>>
    /\ UNCHANGED tvars

\* lines 101-111: the payload description is stored when write is set
BuildChannels_begin ==
    /\ pc = "BC_execute"
    /\ store' = IF frame.write THEN StoreDescription(store, frame.payload) ELSE store
    /\ log' = IF frame.write THEN Append(log, Ev("write", "payload description")) ELSE log
    /\ frame' = [frame EXCEPT !.i = 1, !.channels = <<>>]
    /\ pc' = "BC_loop"
    /\ UNCHANGED <<stack, outputs, exc>>
    /\ UNCHANGED tvars

\* lines 112-118 and 121-122: the next channel is handed to BuildInstrument, or
\* the loop is over and the output is set
BuildChannels_loop ==
    /\ pc = "BC_loop"
    /\ IF frame.i > Len(frame.payload.channel)
       THEN /\ outputs' = [outputs EXCEPT !.BuildChannels = <<frame.channels>>]
            /\ log' = Logged(log, <<Ev("set_output", "BuildChannels"),
                                    Ev("return", "BuildChannels")>>)
            /\ stack' = Pop(stack)
            /\ pc' = CASE Top(Pop(stack)) = "with" -> "PP_exit"
                       [] Top(Pop(stack)) = "PreparePayload" -> "PP_finish"
                       [] OTHER -> "done"
            /\ UNCHANGED <<frame, store, exc>>
       ELSE LET det == ChannelAt(frame.payload, frame.i)
            IN  /\ frame' = [frame EXCEPT !.type = ChannelType(det.channelClass),
                                          !.name = det.name,
                                          !.description = det,
                                          !.biwrite = NestedWrite(frame.write)]
                /\ log' = Append(log, Ev("call", "BuildInstrument"))
                /\ stack' = Append(stack, "BuildInstrument")
                /\ pc' = "BI_execute"
                /\ UNCHANGED <<store, outputs, exc>>
    /\ UNCHANGED tvars

\* lines 114 and 119-120: the built instrument is kept and, with write set, written
BuildChannels_built ==
    /\ pc = "BC_built"
    /\ LET instrument == outputs.BuildInstrument[1]
       IN  /\ frame' = [frame EXCEPT
                           !.channels = Append(@, [name |-> frame.name, inst |-> instrument]),
                           !.i = @ + 1]
           /\ store' = ChannelStore(store, frame.write, instrument)
           /\ log' = IF frame.write THEN Append(log, Ev("write", frame.name)) ELSE log
    /\ pc' = "BC_loop"
    /\ UNCHANGED <<stack, outputs, exc>>
    /\ UNCHANGED tvars

(***************************************************************************)
(* LoadOptions (exorad.tasks.loadOptions): the payload file is parsed into *)
(* a payload, or the file is rejected with an IOError.                     *)
(***************************************************************************)
LoadOptions_execute ==
    /\ pc = "LoadOptions"
    /\ \/ \E p \in Payloads :
             /\ frame' = [frame EXCEPT !.payload = p]
             /\ log' = Append(log, Ev("return", "LoadOptions"))
             /\ stack' = Pop(stack)
             /\ pc' = "PP_loaded"
             /\ exc' = exc
       \/ /\ exc' = "IOError"
          /\ log' = Append(log, Ev("error", "LoadOptions"))
          /\ pc' = Raised(stack).pc
          /\ stack' = Raised(stack).stack
          /\ frame' = frame
    /\ UNCHANGED <<store, outputs>>
    /\ UNCHANGED tvars

(***************************************************************************)
(* LoadPayload                                                             *)
(***************************************************************************)
\* the entries of a group, in stored order
RECURSIVE InGroup(_, _)
InGroup(entries, group) ==
    IF entries = <<>> THEN <<>>
    ELSE (IF entries[1].group = group THEN <<entries[1]>> ELSE <<>>)
         \o InGroup(Tail(entries), group)

\* lines 156-166: a channel is rebuilt from its stored description and loaded
LoadedChannel(entry) ==
    LET description == entry.inst[1].description
    IN  [name |-> entry.key,
         inst |-> [class |-> instruments[Lower(description.channelClass)],
                   name |-> entry.key,
                   description |-> description,
                   built |-> TRUE]]

\* a direct invocation on the store a finished PreparePayload left on disk
CallLoadPayload ==
    /\ pc = "done"
    /\ frame.top = "PreparePayload"
    /\ store.state = "closed"
    /\ pc' = "LoadPayload"
    /\ stack' = <<"LoadPayload">>
    /\ frame' = [frame EXCEPT !.top = "LoadPayload", !.input = "store"]
    /\ exc' = "none"
    /\ log' = Append(log, Ev("call", "LoadPayload"))
    /\ UNCHANGED <<store, outputs>>
    /\ UNCHANGED tvars

LoadPayload_execute ==
    /\ pc = "LoadPayload"
    /\ IF frame.input = "file"
       THEN \* input['payload'] on a str
            /\ exc' = "TypeError"
            /\ pc' = Raised(stack).pc
            /\ stack' = Raised(stack).stack
            /\ UNCHANGED <<frame, log, outputs>>
       ELSE IF InGroup(store.disk, "payload description") = <<>>
       THEN \* payload_dir['payload description'] is missing
            /\ exc' = "KeyError"
            /\ pc' = Raised(stack).pc
            /\ stack' = Raised(stack).stack
            /\ UNCHANGED <<frame, log, outputs>>
       ELSE LET payload == InGroup(store.disk, "payload description")[1].payload
                channels_dir == InGroup(store.disk, "channels")
                channels == [k \in DOMAIN channels_dir |-> LoadedChannel(channels_dir[k])]
            IN  /\ outputs' = [outputs EXCEPT
                                  !.LoadPayload = <<[payload |-> payload, channels |-> channels]>>]
                /\ frame' = [frame EXCEPT !.payload = payload, !.channels = channels]
                /\ log' = Logged(log, <<Ev("set_output", "LoadPayload"),
                                        Ev("return", "LoadPayload")>>)
                /\ stack' = Pop(stack)
                /\ pc' = IF Top(Pop(stack)) = "PreparePayload" THEN "PP_finish" ELSE "done"
                /\ exc' = exc
    /\ UNCHANGED store
    /\ UNCHANGED tvars

(***************************************************************************)
(* PreparePayload                                                          *)
(***************************************************************************)
\* preparePayload(payload_file=f, output=o)
CallPreparePayload(f, o) ==
    /\ pc = "idle"
    /\ pc' = "PP_execute"
    /\ stack' = <<"PreparePayload">>
    /\ frame' = [frame EXCEPT !.top = "PreparePayload", !.payload_file = f, !.output = o]
    /\ log' = Append(log, Ev("call", "PreparePayload"))
    /\ UNCHANGED <<store, outputs, exc>>
    /\ UNCHANGED tvars

\* lines 212-214 and 221-225: the branch is chosen by the file's extension
PreparePayload_dispatch ==
    /\ pc = "PP_execute"
    /\ LET ext == splitext(frame.payload_file)[2]
       IN  IF ext = dotxml
           THEN /\ log' = Append(log, Ev("call", "LoadOptions"))
                /\ stack' = Append(stack, "LoadOptions")
                /\ pc' = "LoadOptions"
                /\ UNCHANGED <<frame, exc>>
           ELSE IF ext = h5
           THEN /\ log' = Append(log, Ev("call", "LoadPayload"))
                /\ stack' = Append(stack, "LoadPayload")
                /\ frame' = [frame EXCEPT !.input = "file"]
                /\ pc' = "LoadPayload"
                /\ exc' = exc
           ELSE /\ log' = Append(log, Ev("error", "Unsupported payload format"))
                /\ exc' = "IOError"
                /\ pc' = Raised(stack).pc
                /\ stack' = Raised(stack).stack
                /\ frame' = frame
    /\ UNCHANGED <<store, outputs>>
    /\ UNCHANGED tvars

\* lines 215-219: BuildChannels is invoked, inside the output store's `with`
\* block when an output is given
PreparePayload_build ==
    /\ pc = "PP_loaded"
    /\ IF frame.output # "None"
       THEN /\ store' = StoreEnter(store)
            /\ log' = Logged(log, <<Ev("acquire", frame.output), Ev("call", "BuildChannels")>>)
            /\ stack' = stack \o <<"with", "BuildChannels">>
            /\ frame' = [frame EXCEPT !.write = TRUE]
       ELSE /\ store' = store
            /\ log' = Append(log, Ev("call", "BuildChannels"))
            /\ stack' = Append(stack, "BuildChannels")
            /\ frame' = [frame EXCEPT !.write = FALSE]
    /\ pc' = "BC_execute"
    /\ UNCHANGED <<outputs, exc>>
    /\ UNCHANGED tvars

\* line 216: the `with` block is left, normally or by an exception
PreparePayload_exit ==
    /\ pc = "PP_exit"
    /\ store' = StoreExit(store)
    /\ log' = Append(log, Ev("release", frame.output))
    /\ IF exc = "none"
       THEN /\ stack' = Pop(stack)
            /\ pc' = "PP_finish"
       ELSE /\ stack' = Raised(Pop(stack)).stack
            /\ pc' = Raised(Pop(stack)).pc
    /\ UNCHANGED <<frame, outputs, exc>>
    /\ UNCHANGED tvars

\* lines 226-227
PreparePayload_finish ==
    /\ pc = "PP_finish"
    /\ LET payload == frame.payload
           channels == IF frame.input = "file"
                       THEN outputs.LoadPayload[1].channels
                       ELSE outputs.BuildChannels[1]
       IN  outputs' = [outputs EXCEPT !.PreparePayload =
                          <<[payload |-> payload, channels |-> channels,
                             wl |-> <<payload.common.wl_min, payload.common.wl_max>>]>>]
    /\ log' = Logged(log, <<Ev("set_output", "PreparePayload"),
                            Ev("return", "PreparePayload")>>)
    /\ stack' = Pop(stack)
    /\ pc' = "done"
    /\ UNCHANGED <<frame, store, exc>>
    /\ UNCHANGED tvars

(***************************************************************************)
(* Target lists (exorad/models/target.py).                                 *)
(***************************************************************************)
RECURSIVE Without(_, _)
\* str.replace(c, '')
Without(s, c) ==
    IF s = <<>> THEN <<>>
    ELSE (IF s[1] = c THEN <<>> ELSE <<s[1]>>) \o Without(Tail(s), c)

\* compactString = lambda string: string.replace(' ', '').replace('-', '').lower()
compactString(string) == Lower(Without(Without(string, " "), "-"))

\* stripUnitString = lambda string: string.replace('[', '').replace(']', '')
stripUnitString(string) == Without(Without(string, "["), "]")

\* u.Unit(s): the unit of a unit string, "ValueError" when it has none
Unit(s) ==
    CASE s = <<>> -> "dimensionless"
      [] s = <<"K">> -> "K"
      [] s = <<"m">> -> "m"
      [] OTHER -> "ValueError"

\* re.search(pattern, text) for patterns of literal characters and '.'
RegexSearch(pattern, text) ==
    \E i \in 1..(Len(text) - Len(pattern) + 1) :
        \A j \in DOMAIN pattern :
            pattern[j] = "." \/ pattern[j] = text[i + j - 1]

\* unit annotations of a catalog: none, [K], [m], [], and the unparseable [K?]
UnitAnnotations == {<<>>, <<"[","K","]">>, <<"[","m","]">>, <<"[","]">>,
                    <<"[","K","?","]">>}

\* the star and planet names of a catalog row: 'HD 2' with 'HD 2 b', 'GJ-1' with 'GJ-1 b'
Systems == {[star |-> <<"H","D"," ","2">>, planet |-> <<"H","D"," ","2"," ","b">>],
            [star |-> <<"G","J","-","1">>, planet |-> <<"G","J","-","1"," ","b">>]}

\* names asked of searchTarget: 'hd-2 b', 'gj1', '2', 'h.2', 'x'
Queries == {<<"h","d","-","2"," ","b">>, <<"g","j","1">>, <<"2">>,
            <<"h",".","2">>, <<"x">>}

\* objects handed to update_target, by type
Objects == {[type |-> "Star", luminosity |-> "L1", sed |-> "sed1", model |-> "m1"],
            [type |-> "CustomSed", luminosity |-> "L2", sed |-> "sed2", model |-> "m2"],
            [type |-> "int", luminosity |-> "", sed |-> "", model |-> ""],
            [type |-> "Target", luminosity |-> "", sed |-> "", model |-> ""]}

\* a cell of a numeric column
Number == <<"1">>

\* a value with the unit it carries: "none" for a plain value
Cell(v, unit) == [value |-> v, unit |-> unit]

\* dict(zip(keys, row)): columns is the sequence of [key, cell]
AsDict(columns) ==
    [k \in {columns[j].key : j \in DOMAIN columns} |->
        columns[CHOOSE j \in DOMAIN columns :
                   columns[j].key = k
                   /\ \A m \in DOMAIN columns : columns[m].key = k => m <= j].cell]

(***************************************************************************)
(* Spreadsheets: XLXSTargetList and OldExcelTargetList.                    *)
(***************************************************************************)
star_data_columns == <<1, 6>>
planet_data_columns == <<8, 18>>
number_to_be_observed_column == 20

\* row 2 of Sheet1, the field names of columns 0 to 20; row units_row = 3 holds
\* the unit annotations and the rows from data_row0 = 4 on hold the data
HeaderRow == <<"", "Star", "Teff", "M", "R", "D", "Mag", "",
               "Planet", "Rp", "P", "a", "e", "i", "T14", "Mp", "Tp", "alb", "Z", "",
               "Nobs">>

\* the sheets of the model: ncols columns, the unit annotations su of column 2 and
\* pu of column 9 (no other column has one), and one data row per system
Sheets == [ncols : {7, 12, 21}, su : UnitAnnotations, pu : UnitAnnotations,
           rows : SeqsUpTo(Systems, MaxRows)]

\* Sheet.cell_value(rowx=self.units_row, colx=col)
UnitCell(sheet, col) ==
    IF col = 2 THEN sheet.su ELSE IF col = 9 THEN sheet.pu ELSE <<>>

\* Sheet.col_values(col)[self.data_row0:]
ColValues(sheet, col) ==
    [r \in DOMAIN sheet.rows |->
        IF col = 1 THEN sheet.rows[r].star
        ELSE IF col = 8 THEN sheet.rows[r].planet
        ELSE Number]

\* __parseData__(col_range): the parsed columns in order, the number of warnings,
\* or the IndexError of a sheet that ends before the range
parseData(sheet, col_range) ==
    LET last == IF col_range[2] < sheet.ncols THEN col_range[2] ELSE sheet.ncols - 1
        n == last - col_range[1] + 1
        dimOf(col) == LET str_unit == UnitCell(sheet, col)
                      IN  IF Len(str_unit) > 0 THEN Unit(stripUnitString(str_unit))
                          ELSE "none"
    IN  IF n <= 0
        THEN [exc |-> "IndexError", obj |-> <<>>, warned |-> 0]
        ELSE [exc |-> "none",
              obj |-> [j \in 1..n |->
                         LET col == col_range[1] + j - 1
                         IN  [key |-> IF j = 1 THEN "name" ELSE HeaderRow[col + 1],
                              values |-> ColValues(sheet, col),
                              dim |-> IF dimOf(col) = "ValueError" THEN "none"
                                      ELSE dimOf(col)]],
              warned |-> Cardinality({j \in 1..n :
                                         dimOf(col_range[1] + j - 1) = "ValueError"})]

\* the i-th row of the parsed columns: list(map(list, zip(*values)))[i]
RowOf(obj, i) == [j \in DOMAIN obj |-> Cell(obj[j].values[i], obj[j].dim)]

\* list(map(list, zip(*values)))
RowsOf(obj) ==
    IF obj = <<>> THEN <<>> ELSE [i \in DOMAIN obj[1].values |-> RowOf(obj, i)]

\* obj.keys()
KeysOf(obj) == [j \in DOMAIN obj |-> obj[j].key]

Warnings(n) == [j \in 1..n |-> "Unrecognised physical units"]

\* XLXSTargetList.read_data
XLXS_read_data(sheet) ==
    LET planet == parseData(sheet, planet_data_columns)
        star == parseData(sheet, star_data_columns)
    IN  IF planet.exc # "none"
        THEN [exc |-> planet.exc, planet |-> <<>>, star |-> <<>>, warnings |-> <<>>]
        ELSE IF ~(number_to_be_observed_column < sheet.ncols)
        THEN [exc |-> "IndexError", planet |-> <<>>, star |-> <<>>,
              warnings |-> Warnings(planet.warned)]
        ELSE IF star.exc # "none"
        THEN [exc |-> star.exc, planet |-> <<>>, star |-> <<>>,
              warnings |-> Warnings(planet.warned)]
        ELSE [exc |-> "none",
              planet |-> Append(planet.obj,
                                [key |-> "Nobs",
                                 values |-> ColValues(sheet, number_to_be_observed_column),
                                 dim |-> "none"]),
              star |-> star.obj,
              warnings |-> Warnings(planet.warned + star.warned)]

(***************************************************************************)
(* BaseTargetList.create_target_list                                       *)
(***************************************************************************)
Min(a, b) == IF a < b THEN a ELSE b

\* zip(keys, row)
Zip(keys, row) ==
    [j \in 1..Min(Len(keys), Len(row)) |-> [key |-> keys[j], cell |-> row[j]]]

\* planet_data is <<>> when there is none or when reading it raised
create_target_list(star_keys, star_data, planet_keys, planet_data) ==
    IF planet_data # <<>>
    THEN [i \in 1..Min(Len(star_data), Len(planet_data)) |->
            [attrs |-> {"planet", "star", "name", "id"},
             id |-> i - 1,
             name |-> AsDict(Zip(planet_keys, planet_data[i])).name.value,
             star |-> AsDict(Zip(star_keys, star_data[i])),
             planet |-> <<AsDict(Zip(planet_keys, planet_data[i]))>>]]
    ELSE [i \in DOMAIN star_data |->
            [attrs |-> {"star", "id", "name"},
             id |-> i - 1,
             name |-> AsDict(Zip(star_keys, star_data[i])).name.value,
             star |-> AsDict(Zip(star_keys, star_data[i])),
             planet |-> <<>>]]

\* XLXSTargetList(filename)
XLXSTargetList(sheet) ==
    LET data == XLXS_read_data(sheet)
    IN  IF data.exc # "none"
        THEN [exc |-> data.exc, warnings |-> data.warnings, targets |-> <<>>]
        ELSE [exc |-> "none",
              warnings |-> data.warnings,
              targets |-> create_target_list(KeysOf(data.star), RowsOf(data.star),
                                             KeysOf(data.planet), RowsOf(data.planet))]

\* OldExcelTargetList(filename): star columns only; a target gets a star and
\* nothing else
OldExcelTargetList(xlsx, sheet) ==
    LET star == parseData(sheet, star_data_columns)
    IN  IF ~xlsx
        THEN [exc |-> "IOError", warnings |-> <<>>, targets |-> <<>>]
        ELSE IF star.exc # "none"
        THEN [exc |-> star.exc, warnings |-> <<>>, targets |-> <<>>]
        ELSE [exc |-> "none",
              warnings |-> Warnings(star.warned),
              targets |-> [k \in DOMAIN RowsOf(star.obj) |->
                             [attrs |-> {"star"},
                              id |-> -1,
                              name |-> <<>>,
                              star |-> AsDict(Zip(KeysOf(star.obj), RowsOf(star.obj)[k])),
                              planet |-> <<>>]]]

(***************************************************************************)
(* CSVTargetList                                                           *)
(***************************************************************************)
\* a column header '<star|planet> <field> [<unit>]' as k.split(' ')
Header(entity, field, annotation) ==
    IF annotation = <<>> THEN <<entity, field>> ELSE <<entity, field, annotation>>

\* the tables of the model: a star name, a star column with annotation su and,
\* with planets set, a planet name and a planet column with annotation pu
Tables == [planets : BOOLEAN, su : UnitAnnotations, pu : UnitAnnotations,
           rows : SeqsUpTo(Systems, MaxRows)]

\* self.tmpTab.keys()
TableKeys(tab) ==
    <<Header("star", "name", <<>>), Header("star", "Teff", tab.su)>>
    \o (IF tab.planets
        THEN <<Header("planet", "name", <<>>), Header("planet", "Rp", tab.pu)>>
        ELSE <<>>)

\* self.tmpTab[k][i]
TableValue(tab, k, i) ==
    IF k[2] = "name"
    THEN (IF k[1] = "star" THEN tab.rows[i].star ELSE tab.rows[i].planet)
    ELSE Number

\* word in k, for a word that only an entity or field token can hold
Contains(k, word) == k[1] = word \/ k[2] = word

IsStarKey(k) == Contains(k, "star")

IsPlanetKey(k) == Contains(k, "planet")

\* [k.split(' ')[1] for k in s_col]
SecondTokens(cols) == [j \in DOMAIN cols |-> cols[j][2]]

\* lines 217-223: the unit of each column, "None" without a third token,
\* "ValueError" where u.Unit raises
ColumnUnits(cols) ==
    [j \in DOMAIN cols |->
        IF Len(cols[j]) = 3 THEN Unit(stripUnitString(cols[j][3])) ELSE "None"]

\* lines 216-232: star_data and planet_data on their columns
column_data(tab, cols) ==
    LET units == ColumnUnits(cols)
    IN  IF \E j \in DOMAIN units : units[j] = "ValueError"
        THEN [exc |-> "ValueError", dat |-> <<>>]
        ELSE [exc |-> "none",
              dat |-> IF cols = <<>> THEN <<>>
                      ELSE [i \in DOMAIN tab.rows |->
                              [n \in DOMAIN cols |->
                                 Cell(TableValue(tab, cols[n], i),
                                      IF units[n] = "None" THEN "none" ELSE units[n])]]]

\* CSVTargetList(filename)
CSVTargetList(tab) ==
    LET star_k == SelectSeq(TableKeys(tab), IsStarKey)
        planet_k == SelectSeq(TableKeys(tab), IsPlanetKey)
        star == column_data(tab, star_k)
        planet == column_data(tab, planet_k)
    IN  IF star.exc # "none"
        THEN [exc |-> star.exc, warnings |-> <<>>, targets |-> <<>>]
        ELSE [exc |-> "none",
              warnings |-> <<>>,
              targets |-> create_target_list(
                             SecondTokens(star_k), star.dat,
                             SecondTokens(planet_k),
                             \* try: ... except: pass
                             IF planet.exc # "none" THEN <<>> ELSE planet.dat)]

(***************************************************************************)
(* searchTarget and update_target                                          *)
(***************************************************************************)
\* lines 132-142: the places in the list of the targets returned, or the
\* AttributeError of reading the planet of a target that has none
searchTarget(tl, name) ==
    LET searchName == compactString(name)
        starHit(t) == RegexSearch(searchName, compactString(t.star.name.value))
        planetHit(t) == RegexSearch(searchName, compactString(t.planet[1].name.value))
    IN  IF \E i \in DOMAIN tl : ~starHit(tl[i]) /\ tl[i].planet = <<>>
        THEN [exc |-> "AttributeError", returnList |-> <<>>]
        ELSE [exc |-> "none",
              returnList |-> SelectSeq([i \in DOMAIN tl |-> i],
                                       LAMBDA i : starHit(tl[i]) \/ planetHit(tl[i]))]

\* star with three more attributes set
WithSource(star, obj) ==
    [k \in DOMAIN star \cup {"luminosity", "sed", "model"} |->
        CASE k = "luminosity" -> Cell(<<obj.luminosity>>, "none")
          [] k = "sed" -> Cell(<<obj.sed>>, "none")
          [] k = "model" -> Cell(<<obj.model>>, "none")
          [] OTHER -> star[k]]

\* lines 40-48; '{:s}'.format(type(obj)) raises TypeError before warning() runs
update_target(self, obj) ==
    IF obj.type \in {"Star", "CustomSed"}
    THEN [exc |-> "none", warnings |-> <<>>,
          self |-> [self EXCEPT !.star = WithSource(self.star, obj)]]
    ELSE [exc |-> "TypeError", warnings |-> <<>>, self |-> self]

(***************************************************************************)
(* A target list is made, then searched or one of its targets updated.     *)
(***************************************************************************)
TInit ==
    /\ tpc = "idle"
    /\ catalog = [reader |-> "none"]
    /\ targets = <<>>
    /\ warnings = <<>>
    /\ texc = "none"
    /\ op = [name |-> "none"]

\* XLXSTargetList(filename) on a workbook
NewXLXSTargetList ==
    /\ tpc = "idle"
    /\ \E sheet \in Sheets :
          LET made == XLXSTargetList(sheet)
          IN  /\ catalog' = [reader |-> "XLXS", xlsx |-> TRUE, source |-> sheet]
              /\ targets' = made.targets
              /\ warnings' = made.warnings
              /\ texc' = made.exc
    /\ tpc' = "made"
    /\ op' = [name |-> "__init__"]
    /\ UNCHANGED pvars

\* OldExcelTargetList(filename) on a workbook, or on a file not named .xlsx
NewOldExcelTargetList ==
    /\ tpc = "idle"
    /\ \E sheet \in Sheets, xlsx \in BOOLEAN :
          LET made == OldExcelTargetList(xlsx, sheet)
          IN  /\ catalog' = [reader |-> "OldExcel", xlsx |-> xlsx, source |-> sheet]
              /\ targets' = made.targets
              /\ warnings' = made.warnings
              /\ texc' = made.exc
    /\ tpc' = "made"
    /\ op' = [name |-> "__init__"]
    /\ UNCHANGED pvars

\* CSVTargetList(filename) on a delimited-text table
NewCSVTargetList ==
    /\ tpc = "idle"
    /\ \E tab \in Tables :
          LET made == CSVTargetList(tab)
          IN  /\ catalog' = [reader |-> "CSV", xlsx |-> FALSE, source |-> tab]
              /\ targets' = made.targets
              /\ warnings' = made.warnings
              /\ texc' = made.exc
    /\ tpc' = "made"
    /\ op' = [name |-> "__init__"]
    /\ UNCHANGED pvars

CallSearchTarget ==
    /\ tpc = "made"
    /\ texc = "none"
    /\ \E name \in Queries :
          LET found == searchTarget(targets, name)
          IN  /\ op' = [name |-> "searchTarget", query |-> name,
                        returnList |-> found.returnList]
              /\ texc' = found.exc
    /\ tpc' = "searched"
    /\ UNCHANGED <<catalog, targets, warnings>>
    /\ UNCHANGED pvars

CallUpdateTarget ==
    /\ tpc \in {"made", "searched"}
    /\ op.name # "searchTarget" \/ texc = "none"
    /\ \E i \in DOMAIN targets, obj \in Objects :
          LET updated == update_target(targets[i], obj)
          IN  /\ op' = [name |-> "update_target", obj |-> obj, i |-> i,
                        before |-> targets, warned |-> Len(warnings)]
              /\ targets' = [targets EXCEPT ![i] = updated.self]
              /\ warnings' = warnings \o updated.warnings
              /\ texc' = updated.exc
    /\ tpc' = "updated"
    /\ UNCHANGED catalog
    /\ UNCHANGED pvars

TNext ==
    \/ NewXLXSTargetList
    \/ NewOldExcelTargetList
    \/ NewCSVTargetList
    \/ CallSearchTarget
    \/ CallUpdateTarget

(***************************************************************************)
(* The pipeline.                                                           *)
(***************************************************************************)
PNext ==
    \/ \E f \in FileNames, o \in {"None", "out.h5"} : CallPreparePayload(f, o)
    \/ PreparePayload_dispatch
    \/ LoadOptions_execute
    \/ PreparePayload_build
    \/ PreparePayload_exit
    \/ PreparePayload_finish
    \/ \E p \in Payloads, w \in BOOLEAN : CallBuildChannels(p, w)
    \/ BuildChannels_begin
    \/ BuildChannels_loop
    \/ BuildChannels_built
    \/ \E t \in TypeTags, n \in ChannelNames, c \in TypeTags, w \in BOOLEAN :
          CallBuildInstrument(t, [name |-> n, channelClass |-> c], w)
    \/ BuildInstrument_execute
    \/ CallLoadPayload
    \/ LoadPayload_execute

Init == PInit /\ TInit

Next == PNext

Spec == Init /\ [][Next]_vars

TargetNext == TNext

TargetSpec == Init /\ [][TargetNext]_vars

(***************************************************************************)
(* Properties of the pipeline.                                             *)
(***************************************************************************)
RegistryTags == {<<"p","h","o","t","o","m","e","t","e","r">>,
                 <<"s","p","e","c","t","r","o","m","e","t","e","r">>}

\* the class the registry holds for a tag, once lower-cased
ClassFor(tag) == IF Lower(tag) = <<"p","h","o","t","o","m","e","t","e","r">>
                 THEN "Photometer" ELSE "Spectrometer"

EndsWith(s, suffix) ==
    /\ Len(s) >= Len(suffix)
    /\ SubSeq(s, Len(s) - Len(suffix) + 1, Len(s)) = suffix

Happened(e) == \E k \in DOMAIN log : log[k] = e

\* the place of the last event e of the log, 0 when there is none
LastIndex(e) ==
    IF Happened(e)
    THEN CHOOSE k \in DOMAIN log : log[k] = e /\ \A j \in DOMAIN log : log[j] = e => j <= k
    ELSE 0

IsBuildInstrumentEdge(e) ==
    e \in {Ev("call", "BuildInstrument"), Ev("return", "BuildInstrument")}

IsConstruct(e) == e.ev = "construct"

\* the run in progress is one of the build tasks (not a later LoadPayload)
InBuildRun == frame.top \in {"PreparePayload", "BuildChannels", "BuildInstrument"}

\* C1: PreparePayload on a payload_file ending in h5 (e.g. 'run.h5') invokes
\* LoadPayload, invokes neither LoadOptions nor BuildChannels, does not raise the
\* 'Unsupported payload format' error, and sets its output to the loaded payload,
\* channels and (wl_min, wl_max).
C1_H5TakesLoadPath ==
    (/\ frame.top = "PreparePayload"
     /\ pc = "done"
     /\ EndsWith(frame.payload_file, <<"h","5">>))
    => /\ Happened(Ev("call", "LoadPayload"))
       /\ ~Happened(Ev("call", "LoadOptions"))
       /\ ~Happened(Ev("call", "BuildChannels"))
       /\ ~Happened(Ev("error", "Unsupported payload format"))
       /\ outputs.PreparePayload # <<>>
       /\ outputs.LoadPayload # <<>>
       /\ outputs.PreparePayload[1].payload = outputs.LoadPayload[1].payload
       /\ outputs.PreparePayload[1].channels = outputs.LoadPayload[1].channels

\* C2: a BuildInstrument invocation whose type tag is not a registry key ends in
\* the logged error 'invalid instrument class' and a raised ValueError; in that
\* invocation nothing is constructed, built, written, or set as output.
C2_UnknownTypeIsFatal ==
    LET k == LastIndex(Ev("call", "BuildInstrument"))
    IN  (/\ InBuildRun
         /\ k > 0
         /\ pc # "BI_execute"
         /\ frame.type \notin RegistryTags)
        => /\ exc = "ValueError"
           /\ Len(log) > k
           /\ log[k + 1] = Ev("error", "invalid instrument class")
           /\ \A j \in (k + 1)..Len(log) :
                 log[j].ev \notin {"construct", "build", "write", "set_output", "return"}
           /\ frame.top = "BuildInstrument" =>
                 /\ outputs.BuildInstrument = <<>>
                 /\ store.entries = <<>>

C2_Witness ==
    /\ frame.top = "BuildInstrument"
    /\ pc = "done"
    /\ frame.type = <<"b","o","l","o","m","e","t","e","r">>
    /\ frame.biwrite
    /\ exc = "ValueError"

\* C3 as stated: BuildInstrument itself ignores the case of its type tag: a direct
\* invocation with a tag that lower-cases to a registry key returns the built
\* instrument of that class.
C3_DirectCallIgnoresCase ==
    (/\ frame.top = "BuildInstrument"
     /\ pc = "done"
     /\ Lower(frame.type) \in RegistryTags)
    => /\ exc = "none"
       /\ outputs.BuildInstrument =
             <<[class |-> ClassFor(frame.type), name |-> frame.name,
                description |-> frame.description, built |-> TRUE]>>

\* C3 amended: BuildInstrument matches its type tag exactly against the lower-case
\* registry keys: a direct invocation returns the built instrument of the class
\* for 'photometer' or 'spectrometer' and raises ValueError for any other tag,
\* mixed-case spellings included; the lower-casing is BuildChannels', which hands
\* BuildInstrument the lower-cased channelClass value.
C3_ExactTagLowercasedByBuildChannels ==
    /\ (frame.top = "BuildInstrument" /\ pc = "done")
       => IF frame.type \in RegistryTags
          THEN /\ exc = "none"
               /\ outputs.BuildInstrument =
                     <<[class |-> ClassFor(frame.type), name |-> frame.name,
                        description |-> frame.description, built |-> TRUE]>>
          ELSE /\ exc = "ValueError"
               /\ outputs.BuildInstrument = <<>>
    /\ (pc = "BI_execute" /\ Len(stack) > 1 /\ stack[Len(stack) - 1] = "BuildChannels")
       => frame.type = Lower(frame.description.channelClass)

C3_Witness ==
    /\ frame.top = "BuildInstrument"
    /\ pc = "done"
    /\ frame.type = <<"P","h","o","t","o","m","e","t","e","r">>
    /\ exc = "ValueError"

\* a PreparePayload run that builds from an '.xml' payload with an output given
XmlRunWithOutput ==
    /\ frame.payload_file # <<>>
    /\ splitext(frame.payload_file)[2] = <<".","x","m","l">>
    /\ frame.output # "None"

\* C4: in a PreparePayload run on an '.xml' payload with an output, the store is
\* acquired before BuildChannels is invoked, it is released once PreparePayload
\* has ended, whether BuildChannels returned or an exception left it, and nothing
\* is written to the store after its release.
C4_StoreScopedAroundBuildChannels ==
    XmlRunWithOutput =>
       /\ \A k \in DOMAIN log :
             log[k] = Ev("call", "BuildChannels")
                => \E j \in 1..(k - 1) : log[j] = Ev("acquire", frame.output)
       /\ (pc = "done" /\ Happened(Ev("call", "BuildChannels")))
             => /\ store.state = "closed"
                /\ Happened(Ev("release", frame.output))
                /\ store.disk = store.entries
       /\ \A j, k \in DOMAIN log :
             (j < k /\ log[j].ev = "release") => log[k].ev # "write"

C4_Witness ==
    /\ XmlRunWithOutput
    /\ frame.top = "PreparePayload"
    /\ pc = "done"
    /\ exc = "ValueError"
    /\ frame.i = 2
    /\ store.state = "closed"

\* the fatal error of the claim: a PreparePayload run has ended with an exception
\* raised while BuildChannels ran with write enabled
FailedWhileWriting ==
    /\ frame.top = "PreparePayload"
    /\ pc = "done"
    /\ exc # "none"
    /\ frame.write
    /\ Happened(Ev("call", "BuildChannels"))

\* C5 as stated: after a fatal error in BuildChannels with write enabled, nothing
\* of that run is in the output store: neither the payload description nor any
\* channel built before the failing one.
C5_NothingPersistedOnFailure ==
    FailedWhileWriting => store.disk = <<>>

\* C5 amended: when the k-th channel's class is unrecognised and BuildChannels
\* runs with write enabled under PreparePayload, the released store holds the
\* 'payload description' entry followed by one 'channels' entry for each of the
\* k-1 channels built before the failing one, in payload order, and nothing for
\* the failing channel or the later ones; no output is set for BuildChannels or
\* PreparePayload.
C5_PartialOutputPersistedOnFailure ==
    FailedWhileWriting =>
       LET k == frame.i
           decl == frame.payload.channel
       IN  /\ k \in DOMAIN decl
           /\ Lower(decl[k].channelClass) \notin RegistryTags
           /\ store.state = "closed"
           /\ Len(store.disk) = k
           /\ store.disk[1].group = "payload description"
           /\ store.disk[1].payload = frame.payload
           /\ \A j \in 1..(k - 1) :
                 /\ store.disk[j + 1].group = "channels"
                 /\ store.disk[j + 1].key = decl[j].name
                 /\ store.disk[j + 1].inst[1].description = decl[j]
           /\ outputs.BuildChannels = <<>>
           /\ outputs.PreparePayload = <<>>

C5_Witness ==
    /\ FailedWhileWriting
    /\ frame.i = 2
    /\ Len(store.disk) = 2

\* every channel class of the payload lower-cases to a registry tag
AllRegistered(payload) ==
    \A i \in DOMAIN payload.channel :
        Lower(payload.channel[i].channelClass) \in RegistryTags

RECURSIVE CallsAndReturns(_)
\* n times: BuildInstrument is called, BuildInstrument returns
CallsAndReturns(n) ==
    IF n = 0 THEN <<>>
    ELSE <<Ev("call", "BuildInstrument"), Ev("return", "BuildInstrument")>>
         \o CallsAndReturns(n - 1)

\* C10: for a payload whose channel classes all lower-case to a registry tag,
\* BuildChannels invokes BuildInstrument once per declared channel, in the
\* payload's order, each invocation returning before the next begins, and its
\* output maps exactly the declared names, each to the instrument built from that
\* channel's own description.
C10_OneBuildPerChannelInOrder ==
    /\ \* invocations never overlap
       \A j, k \in DOMAIN log :
          (j < k /\ log[j] = Ev("call", "BuildInstrument")
                 /\ log[k] = Ev("call", "BuildInstrument"))
             => \E m \in (j + 1)..(k - 1) : log[m] = Ev("return", "BuildInstrument")
    /\ (/\ frame.top \in {"PreparePayload", "BuildChannels"}
        /\ pc = "done"
        /\ Happened(Ev("call", "BuildChannels"))
        /\ AllRegistered(frame.payload))
       => LET decl == frame.payload.channel
          IN  /\ exc = "none"
              /\ SelectSeq(log, IsBuildInstrumentEdge) = CallsAndReturns(Len(decl))
              /\ SelectSeq(log, IsConstruct)
                    = [i \in DOMAIN decl |-> Ev("construct", decl[i].name)]
              /\ outputs.BuildChannels =
                    << [i \in DOMAIN decl |->
                          [name |-> decl[i].name,
                           inst |-> [class |-> ClassFor(decl[i].channelClass),
                                     name |-> decl[i].name,
                                     description |-> decl[i],
                                     built |-> TRUE]]] >>

C10_Witness ==
    /\ frame.top = "BuildChannels"
    /\ pc = "done"
    /\ exc = "none"
    /\ Len(frame.payload.channel) = 2
    /\ frame.payload.channel[1].channelClass = <<"P","h","o","t","o","m","e","t","e","r">>
    /\ frame.payload.channel[2].channelClass
          = <<"S","P","E","C","T","R","O","M","E","T","E","R">>
    /\ Len(outputs.BuildChannels[1]) = 2

(***************************************************************************)
(* Properties of the target lists.                                         *)
(***************************************************************************)
\* the unit annotation '[K?]', which names no unit
Unparseable == <<"[","K","?","]">>

\* the catalog's layout is complete for its reader: every column the reader
\* reads is there
CompleteLayout ==
    CASE catalog.reader = "XLXS" -> catalog.source.ncols = 21
      [] catalog.reader = "OldExcel" -> catalog.xlsx
      [] catalog.reader = "CSV" -> TRUE
      [] OTHER -> FALSE

\* the reader reads planet columns and the catalog has them
ReadsPlanets ==
    CASE catalog.reader = "XLXS" -> catalog.source.ncols = 21
      [] catalog.reader = "CSV" -> catalog.source.planets
      [] OTHER -> FALSE

Dimensionless(cell) == cell.unit \in {"none", "dimensionless"}

OneTargetPerRow == Len(targets) = Len(catalog.source.rows)

\* C6: whichever the reader, an unparseable unit annotation on a star or planet
\* column does not make the constructor raise: the warning 'Unrecognised physical
\* units' is logged, the column is kept dimensionless, and there is one target per
\* row with the column's field (and, for a planet column, the planet) present; an
\* empty annotation gives dimensionless values and no warning.
C6_MalformedUnitsNeverHaltIngestion ==
    (tpc = "made" /\ CompleteLayout /\ catalog.source.rows # <<>>) =>
       /\ catalog.source.su = Unparseable
             => /\ texc = "none"
                /\ \E j \in DOMAIN warnings : warnings[j] = "Unrecognised physical units"
                /\ OneTargetPerRow
                /\ \A i \in DOMAIN targets :
                      /\ "Teff" \in DOMAIN targets[i].star
                      /\ Dimensionless(targets[i].star.Teff)
       /\ (ReadsPlanets /\ catalog.source.pu = Unparseable)
             => /\ texc = "none"
                /\ \E j \in DOMAIN warnings : warnings[j] = "Unrecognised physical units"
                /\ OneTargetPerRow
                /\ \A i \in DOMAIN targets :
                      /\ targets[i].planet # <<>>
                      /\ "Rp" \in DOMAIN targets[i].planet[1]
                      /\ Dimensionless(targets[i].planet[1].Rp)
       /\ (catalog.source.su = <<>> /\ (ReadsPlanets => catalog.source.pu = <<>>))
             => /\ texc = "none"
                /\ warnings = <<>>
                /\ \A i \in DOMAIN targets : Dimensionless(targets[i].star.Teff)

\* the catalog has no planet section: no 'planet' header in a delimited text,
\* a sheet that ends before the planet columns or the Nobs column
NoPlanetSection ==
    CASE catalog.reader = "XLXS" -> catalog.source.ncols < 21
      [] catalog.reader = "CSV" -> ~catalog.source.planets
      [] OTHER -> FALSE

\* C7: for a catalog with no planet section the constructor does not raise and
\* the list holds one target per star row, named after its star and with no planet.
C7_MissingPlanetsFallBackToStars ==
    (/\ tpc = "made"
     /\ NoPlanetSection
     /\ catalog.source.rows # <<>>
     /\ catalog.source.su # Unparseable) =>
       /\ texc = "none"
       /\ OneTargetPerRow
       /\ \A i \in DOMAIN targets :
             /\ targets[i].name = targets[i].star.name.value
             /\ targets[i].planet = <<>>

\* q occurs in text
Substring(q, text) ==
    \E i \in 1..(Len(text) - Len(q) + 1) : SubSeq(text, i, i + Len(q) - 1) = q

\* the claim's match: the normalised query occurs in the normalised star name or
\* in the normalised planet name
Matches(t, name) ==
    \/ Substring(compactString(name), compactString(t.star.name.value))
    \/ /\ t.planet # <<>>
       /\ Substring(compactString(name), compactString(t.planet[1].name.value))

\* C8: on a list made by create_target_list, with planets or star-only,
\* searchTarget(name) does not raise and returns, in list order, exactly the
\* targets whose normalised star or planet name contains the normalised name
\* (names here are taken literally: no '.' in them).
C8_SearchReturnsEveryMatch ==
    (/\ op.name = "searchTarget"
     /\ catalog.reader \in {"XLXS", "CSV"}
     /\ \A j \in DOMAIN op.query : op.query[j] # ".")
    => /\ texc = "none"
       /\ op.returnList = SelectSeq([i \in DOMAIN targets |-> i],
                                    LAMBDA i : Matches(targets[i], op.query))

\* C9: update_target(obj) with an obj that is neither a Star nor a CustomSed logs
\* a warning, returns without raising, and leaves the target and its star as
\* they were.
C9_UnsupportedObjectIsSkipped ==
    (op.name = "update_target" /\ op.obj.type \notin {"Star", "CustomSed"})
    => /\ texc = "none"
       /\ Len(warnings) = op.warned + 1
       /\ targets = op.before

(***************************************************************************)
(* The order of the writes of BuildChannels.                               *)
(***************************************************************************)
IsChannelWrite(e) == e.ev = "write" /\ e.arg # "payload description"

IsStoreOperation(e) == e.ev \in {"write", "acquire", "release"}

\* BuildChannels has been invoked, directly or by PreparePayload, and no later
\* task has run
BuildChannelsRun ==
    /\ frame.top \in {"PreparePayload", "BuildChannels"}
    /\ Happened(Ev("call", "BuildChannels"))

\* C11: with write enabled BuildChannels stores the payload description before
\* any channel is built or written, and writes each channel exactly once, to the
\* 'channels' group, after its own build and before the next channel's build
\* (BuildInstrument is invoked with write disabled); with write disabled it
\* performs no operation on the output store.
C11_DescriptionFirstThenEachChannelOnce ==
    BuildChannelsRun =>
       LET decl == frame.payload.channel
       IN  /\ (pc = "BI_execute") => ~frame.biwrite
           /\ frame.write =>
                 /\ \* the description comes before every build and channel write
                    \A k \in DOMAIN log :
                       (log[k].ev \in {"construct", "build"} \/ IsChannelWrite(log[k]))
                          => \E j \in 1..(k - 1) : log[j] = Ev("write", "payload description")
                 /\ \* the channels handled so far are written once each, in order
                    frame.i >= 1 =>
                       SelectSeq(log, IsChannelWrite)
                          = [j \in 1..(frame.i - 1) |-> Ev("write", decl[j].name)]
                 /\ \* a channel's write follows its build and precedes the next build
                    \A k \in DOMAIN log :
                       IsChannelWrite(log[k]) =>
                          /\ Len(SelectSeq(SubSeq(log, 1, k), IsConstruct))
                                = Len(SelectSeq(SubSeq(log, 1, k), IsChannelWrite))
                          /\ \E j \in 1..(k - 1) : log[j] = Ev("build", log[k].arg)
                 /\ \* the store holds the description, then the channels' group
                    frame.i >= 1 =>
                       /\ Len(store.entries) = frame.i
                       /\ store.entries[1].group = "payload description"
                       /\ \A j \in 1..(frame.i - 1) :
                             /\ store.entries[j + 1].group = "channels"
                             /\ store.entries[j + 1].key = decl[j].name
           /\ ~frame.write =>
                 /\ \A k \in DOMAIN log : ~IsStoreOperation(log[k])
                 /\ store = InitStore

C11_Witness ==
    /\ frame.top = "BuildChannels"
    /\ pc = "done"
    /\ exc = "none"
    /\ frame.write
    /\ Len(frame.payload.channel) = 2
    /\ Len(store.entries) = 3
    /\ Len(SelectSeq(log, IsChannelWrite)) = 2
=============================================================================
